---- MODULE Spec2Model ----
(***************************************************************************)
(* A model of src/frontend/app.js: the AgentChat widget.  It locates a     *)
(* backend (health check of the primary URL, then sequential probing of    *)
(* alternative ports), posts prompts to /query, renders the replies, and   *)
(* lists the files of /files.                                              *)
(*                                                                         *)
(* JavaScript is single threaded: every action below is one run of the     *)
(* event loop, from an event (a user event, a settled promise, a timer) to *)
(* the next await or return of the handler.  The backend is an external    *)
(* collaborator: each of its answers is a nondeterministic choice.         *)
(*                                                                         *)
(* A string is modelled as a sequence of fragments, so that trimming and   *)
(* template literals are computed and not assumed.  A JavaScript number is *)
(* a record that can be NaN (parseInt of the empty port string).           *)
(***************************************************************************)
EXTENDS Integers, Sequences, FiniteSets, TLC

\* Bounds of the model (not program constants): the sendMessage calls that issue
\* a request (two, so that sends overlap), and the calls of loadFiles in flight
\* beyond which the refresh button is not pressed again (the delayed refreshes
\* of the sends come on top, so that file lists overlap).
MaxSends == 2
MaxLoads == 1

VARIABLES
    pagePort,          \* window.location.port: a string of digits, <<>> when the page has no port
    windowBackendUrl,  \* window.BACKEND_URL: <<>> (undefined) or <<url>>
    status,            \* this.status: [text, className]
    messages,          \* the children appended to this.messages
    inputValue,        \* this.input.value
    sendButton,        \* this.sendButton: disabled, and the display of its two spans
    sends,             \* the sendMessage calls so far, in order of their start
    health,            \* the checkBackendStatus / tryAlternativePorts call of the constructor
    loads,             \* the loadFiles calls in flight, in order of their start
    timers,            \* pending setTimeout(() => this.loadFiles(), 2000) callbacks: the
                       \* sendMessage calls that set them, in the order they will fire
    filesList,         \* the content of #filesList (from: history, the URL it was fetched from)
    validated,         \* history: <<>> or <<url>>, the endpoint whose health check succeeded
    latest             \* history: what the most recently issued loadFiles call has rendered

vars == <<pagePort, windowBackendUrl, status, messages, inputValue, sendButton,
          sends, health, loads, timers, filesList, validated, latest>>

----------------------------------------------------------------------------
\* JavaScript numbers and strings

Num(n) == [nan |-> FALSE, val |-> n]
NaN == [nan |-> TRUE, val |-> 0]

\* x - k and x + k on numbers: NaN is absorbing
Minus(x, k) == IF x.nan THEN NaN ELSE Num(x.val - k)
Plus(x, k) == IF x.nan THEN NaN ELSE Num(x.val + k)

RECURSIVE DigitsValue(_)
DigitsValue(s) ==
    IF s = <<>> THEN 0 ELSE 10 * DigitsValue(SubSeq(s, 1, Len(s) - 1)) + s[Len(s)]

\* parseInt of a port string: the empty string has no digits and parses to NaN
parseInt(s) == IF s = <<>> THEN NaN ELSE Num(DigitsValue(s))

\* the template literal `http://localhost:${port}`
LocalhostUrl(port) == <<"http://localhost:", port>>

\* a URL the browser can parse: `http://localhost:NaN` is not one, fetch rejects it
WellFormed(url) == ~url[2].nan

IsSpace(c) == c = " "

RECURSIVE TrimStart(_)
TrimStart(s) ==
    IF s # <<>> /\ IsSpace(Head(s)) THEN TrimStart(Tail(s)) ELSE s

RECURSIVE TrimEnd(_)
TrimEnd(s) ==
    IF s # <<>> /\ IsSpace(s[Len(s)]) THEN TrimEnd(SubSeq(s, 1, Len(s) - 1)) ELSE s

\* String.prototype.trim
Trim(s) == TrimEnd(TrimStart(s))

----------------------------------------------------------------------------
\* The module-level code

\* faulty variant: the backend is taken to be on the page's port plus 1
getBackendUrl_plus(currentPort) ==
    IF currentPort # <<>>
    THEN LocalhostUrl(Plus(parseInt(currentPort), 1))
    ELSE LocalhostUrl(Num(8002))

\* the global function getBackendUrl(), as a function of window.location.port
getBackendUrl(currentPort) ==
    IF currentPort # <<>>
    THEN LocalhostUrl(Minus(parseInt(currentPort), 1))
    ELSE LocalhostUrl(Num(8002))

\* const BACKEND_URL = getBackendUrl()
BACKEND_URL == getBackendUrl(pagePort)

\* the portsToTry array of tryAlternativePorts
portsToTry ==
    LET currentPort == parseInt(pagePort) IN
    << Minus(currentPort, 1), Plus(currentPort, 1),
       Num(8002),
       Num(8002), Num(8003), Num(8004), Num(8005), Num(8006), Num(8007), Num(8008) >>

\* faulty variant: the discovered endpoint is ignored
AgentChat_getBackendUrl_const == BACKEND_URL

\* AgentChat.getBackendUrl(): window.BACKEND_URL || BACKEND_URL
AgentChat_getBackendUrl ==
    IF windowBackendUrl # <<>> THEN windowBackendUrl[1] ELSE BACKEND_URL

\* AgentChat.updateStatus(text, className)
updateStatus(text, className) == [text |-> text, className |-> <<"status ", className>>]

StatusInitial == [text |-> "", className |-> <<"status ", "">>]
StatusConnected == updateStatus("Connected", "connected")
StatusBackendError == updateStatus("Backend Error", "error")
StatusDisconnected == updateStatus("Disconnected", "error")
StatusNoBackendFound == updateStatus("No Backend Found", "error")
StatusConnectionError == updateStatus("Connection Error", "error")

----------------------------------------------------------------------------
\* The backend's answers

HealthOutcomes == {"ok", "notok", "throw"}

\* the ports a backend may be listening on
BackendPorts == {3000, 3002, 8002, 8008}

\* what GET url/health can answer: an unparsable URL makes fetch reject, and
\* only a backend answers 200
HealthAnswers(url) ==
    IF ~WellFormed(url) THEN {"throw"}
    ELSE IF url[2].val \in BackendPorts THEN HealthOutcomes
    ELSE {"notok", "throw"}

\* a parsed /query body: an absent field is <<>> (undefined)
QueryBody(st, response, error) == [status |-> st, response |-> response, error |-> error]

QueryBodies ==
    { QueryBody("success", <<"hi">>, <<>>),
      QueryBody("error", <<>>, <<"boom">>),
      QueryBody("error", <<>>, <<>>) }

\* what a sendMessage call got from the backend
NoReply == [kind |-> "none", body |-> QueryBody("", <<>>, <<>>)]
Rejected == [kind |-> "rejected", body |-> QueryBody("", <<>>, <<>>)]
Malformed == [kind |-> "malformed", body |-> QueryBody("", <<>>, <<>>)]
Parsed(b) == [kind |-> "parsed", body |-> b]

\* error.message of a rejected fetch and of a rejected response.json()
FetchErrorMessage == <<"Failed to fetch">>
JsonErrorMessage == <<"Unexpected token">>

\* a parsed /files body: files is a list, is absent, is another falsy value (null,
\* 0, ""), or is another truthy value (a number, a string, an object)
FilesBodies ==
    { [kind |-> "list", files |-> <<>>],
      [kind |-> "list", files |-> <<"a.txt">>],
      [kind |-> "nofield", files |-> <<>>],
      [kind |-> "falsy", files |-> <<>>],
      [kind |-> "notlist", files |-> <<>>] }

\* what the user may type into the input
Inputs == { <<>>, <<" ">>, <<" ", "a", " ", "b", " ">> }

\* what the user may have in the address bar
PagePorts == { <<>>, <<3, 0, 0, 1>> }

----------------------------------------------------------------------------
\* checkBackendStatus and tryAlternativePorts

\* the call has returned: its locals are gone
HealthDone == [pc |-> "done", idx |-> 0, url |-> BACKEND_URL]

\* one iteration of the for loop up to its await: the probe of portsToTry[i]
tryAlternativePorts_probe(i) ==
    health' = [pc |-> "probe", idx |-> i, url |-> LocalhostUrl(portsToTry[i])]

\* faulty variant: the return after a successful probe is missing
tryAlternativePorts_found_continue ==
    /\ windowBackendUrl' = <<health.url>>
    /\ status' = StatusConnected
    /\ validated' = <<health.url>>
    /\ IF health.idx < Len(portsToTry)
       THEN tryAlternativePorts_probe(health.idx + 1)
       ELSE health' = HealthDone

\* response.ok in the loop: the endpoint is stored and the function returns
tryAlternativePorts_found ==
    /\ windowBackendUrl' = <<health.url>>
    /\ status' = StatusConnected
    /\ validated' = <<health.url>>
    /\ health' = HealthDone

\* faulty variant: the last candidate is stored although its probe failed
tryAlternativePorts_failed_sets ==
    /\ validated' = validated
    /\ IF health.idx < Len(portsToTry)
       THEN tryAlternativePorts_probe(health.idx + 1)
            /\ UNCHANGED <<status, windowBackendUrl>>
       ELSE status' = StatusNoBackendFound /\ health' = HealthDone
            /\ windowBackendUrl' = <<health.url>>

\* a probe that failed: the next iteration, or the end of the loop
tryAlternativePorts_failed ==
    /\ UNCHANGED <<windowBackendUrl, validated>>
    /\ IF health.idx < Len(portsToTry)
       THEN tryAlternativePorts_probe(health.idx + 1) /\ UNCHANGED status
       ELSE status' = StatusNoBackendFound /\ health' = HealthDone

\* faulty variant: the catch block does not try the alternative ports
checkBackendStatus_catch_only_status ==
    /\ status' = StatusDisconnected
    /\ health' = HealthDone
    /\ UNCHANGED <<windowBackendUrl, validated>>

\* the catch block of checkBackendStatus
checkBackendStatus_catch ==
    /\ status' = StatusDisconnected
    /\ tryAlternativePorts_probe(1)
    /\ UNCHANGED <<windowBackendUrl, validated>>

\* faulty variant: the else branch only logs
checkBackendStatus_notok_silent ==
    /\ health' = HealthDone
    /\ UNCHANGED <<status, windowBackendUrl, validated>>

\* the else branch of checkBackendStatus: a response that is not ok
checkBackendStatus_notok ==
    /\ status' = StatusBackendError
    /\ health' = HealthDone
    /\ UNCHANGED <<windowBackendUrl, validated>>

\* response.ok and a body that parsed
checkBackendStatus_ok ==
    /\ status' = StatusConnected
    /\ health' = HealthDone
    /\ validated' = <<health.url>>
    /\ UNCHANGED windowBackendUrl

rest == <<pagePort, messages, inputValue, sendButton, sends, loads, timers,
          filesList, latest>>

\* await fetch(BACKEND_URL + '/health') settles
HealthFetchSettles(outcome) ==
    /\ health.pc = "check_fetch"
    /\ outcome \in HealthAnswers(health.url)
    /\ CASE outcome = "ok" -> /\ health' = [health EXCEPT !.pc = "check_json"]
                              /\ UNCHANGED <<status, windowBackendUrl, validated>>
         [] outcome = "notok" -> checkBackendStatus_notok
         [] outcome = "throw" -> checkBackendStatus_catch
    /\ UNCHANGED rest

\* await response.json() of the health check settles
HealthJsonSettles(parses) ==
    /\ health.pc = "check_json"
    /\ IF parses THEN checkBackendStatus_ok ELSE checkBackendStatus_catch
    /\ UNCHANGED rest

\* await fetch(testUrl + '/health') of the loop settles
ProbeSettles(outcome) ==
    /\ health.pc = "probe"
    /\ outcome \in HealthAnswers(health.url)
    /\ IF outcome = "ok" THEN tryAlternativePorts_found ELSE tryAlternativePorts_failed
    /\ UNCHANGED rest

----------------------------------------------------------------------------
\* sendMessage

\* faulty variant: the new message is inserted before the others
addMessage_prepend(content, type, id) ==
    <<[content |-> content, className |-> <<"message ", type>>, send |-> id]>> \o messages

\* faulty variant: the new message replaces the children of this.messages
addMessage_replace(content, type, id) ==
    <<[content |-> content, className |-> <<"message ", type>>, send |-> id]>>

\* AgentChat.addMessage(content, type), called by the sendMessage call number id
addMessage(content, type, id) ==
    Append(messages, [content |-> content, className |-> <<"message ", type>>, send |-> id])

\* AgentChat.setLoading(loading)
setLoading(loading) ==
    [disabled |-> loading,
     sendText |-> IF loading THEN "none" ELSE "inline",
     loading |-> IF loading THEN "inline" ELSE "none"]

\* the body of POST /query: JSON.stringify({prompt: message, max_turns: 20})
QueryRequest(message) == [prompt |-> message, max_turns |-> 20]

Settle(i, reply) == [sends EXCEPT ![i].pc = "done", ![i].reply = reply]

\* faulty variant: the test of the trimmed input is missing
sendMessage_no_check(v) ==
    LET message == Trim(v) IN
    /\ Len(sends) < MaxSends
    /\ messages' = addMessage(message, "user", Len(sends) + 1)
    /\ inputValue' = <<>>
    /\ sendButton' = setLoading(TRUE)
    /\ sends' = Append(sends, [pc |-> "fetch",
                               url |-> AgentChat_getBackendUrl,
                               request |-> QueryRequest(message),
                               afterValidation |-> validated # <<>>,
                               reply |-> NoReply])

\* faulty variant: the user message is not appended before the request
sendMessage_no_echo(v) ==
    LET message == Trim(v) IN
    IF message = <<>>
    THEN /\ inputValue' = v
         /\ UNCHANGED <<messages, sendButton, sends>>
    ELSE /\ Len(sends) < MaxSends
         /\ messages' = messages
         /\ inputValue' = <<>>
         /\ sendButton' = setLoading(TRUE)
         /\ sends' = Append(sends, [pc |-> "fetch",
                                    url |-> AgentChat_getBackendUrl,
                                    request |-> QueryRequest(message),
                                    afterValidation |-> validated # <<>>,
                                    reply |-> NoReply])

\* sendMessage up to its first await, the input holding v
sendMessage(v) ==
    LET message == Trim(v) IN
    IF message = <<>>
    THEN /\ inputValue' = v
         /\ UNCHANGED <<messages, sendButton, sends>>
    ELSE /\ Len(sends) < MaxSends
         /\ messages' = addMessage(message, "user", Len(sends) + 1)
         /\ inputValue' = <<>>
         /\ sendButton' = setLoading(TRUE)
         /\ sends' = Append(sends, [pc |-> "fetch",
                                    url |-> AgentChat_getBackendUrl,
                                    request |-> QueryRequest(message),
                                    afterValidation |-> validated # <<>>,
                                    reply |-> NoReply])

\* faulty variant: the catch block tries the alternative ports
sendMessage_catch_rediscovers(i, errorMessage) ==
    /\ messages' = addMessage(<<"Connection error: ">> \o errorMessage, "assistant error", i)
    /\ status' = StatusConnectionError
    /\ sendButton' = setLoading(FALSE)
    /\ tryAlternativePorts_probe(1)
    /\ UNCHANGED <<timers, windowBackendUrl>>

\* faulty variant: setLoading(false) is not in a finally block: a failure skips it
sendMessage_catch_no_finally(i, errorMessage) ==
    /\ messages' = addMessage(<<"Connection error: ">> \o errorMessage, "assistant error", i)
    /\ status' = StatusConnectionError
    /\ UNCHANGED <<sendButton, timers, health, windowBackendUrl>>

\* the catch block of sendMessage, then its finally block
sendMessage_catch(i, errorMessage) ==
    /\ messages' = addMessage(<<"Connection error: ">> \o errorMessage, "assistant error", i)
    /\ status' = StatusConnectionError
    /\ sendButton' = setLoading(FALSE)
    /\ UNCHANGED <<timers, health, windowBackendUrl>>

\* faulty variant: the error field of the result is not shown
sendMessage_result_no_detail(i, result) ==
    /\ IF result.status = "success"
       THEN /\ messages' = addMessage(result.response, "assistant", i)
            /\ timers' = Append(timers, i)
       ELSE /\ messages' = addMessage(<<"Error: ", "Unknown error">>, "assistant error", i)
            /\ timers' = timers
    /\ sendButton' = setLoading(FALSE)
    /\ UNCHANGED <<status, health, windowBackendUrl>>

\* faulty variant: the button stays as it is after a result
sendMessage_result_no_finally(i, result) ==
    /\ IF result.status = "success"
       THEN /\ messages' = addMessage(result.response, "assistant", i)
            /\ timers' = Append(timers, i)
       ELSE /\ messages' = addMessage(
                   <<"Error: ">> \o (IF result.error # <<>> THEN result.error
                                     ELSE <<"Unknown error">>),
                   "assistant error", i)
            /\ timers' = timers
    /\ UNCHANGED <<sendButton, status, health, windowBackendUrl>>

\* faulty variant: the refresh is scheduled whatever the result
sendMessage_result_always_refresh(i, result) ==
    /\ IF result.status = "success"
       THEN messages' = addMessage(result.response, "assistant", i)
       ELSE messages' = addMessage(
                   <<"Error: ">> \o (IF result.error # <<>> THEN result.error
                                     ELSE <<"Unknown error">>),
                   "assistant error", i)
    /\ timers' = Append(timers, i)
    /\ sendButton' = setLoading(FALSE)
    /\ UNCHANGED <<status, health, windowBackendUrl>>

\* the if (result.status === 'success') statement, then the finally block
sendMessage_result(i, result) ==
    /\ IF result.status = "success"
       THEN /\ messages' = addMessage(result.response, "assistant", i)
            /\ timers' = Append(timers, i)
       ELSE /\ messages' = addMessage(
                   <<"Error: ">> \o (IF result.error # <<>> THEN result.error
                                     ELSE <<"Unknown error">>),
                   "assistant error", i)
            /\ timers' = timers
    /\ sendButton' = setLoading(FALSE)
    /\ UNCHANGED <<status, health, windowBackendUrl>>

\* the submit event of the form: a disabled submit button submits nothing
SubmitForm(v) ==
    /\ ~sendButton.disabled
    /\ sendMessage(v)
    /\ UNCHANGED <<pagePort, windowBackendUrl, status, health, loads, timers,
                   filesList, validated, latest>>

\* the keydown event of the input, Enter without Shift
KeydownEnter(v) ==
    /\ sendMessage(v)
    /\ UNCHANGED <<pagePort, windowBackendUrl, status, health, loads, timers,
                   filesList, validated, latest>>

\* await fetch(`${backendUrl}/query`, ...) settles
QueryFetchSettles(i, resolves) ==
    /\ i \in DOMAIN sends
    /\ sends[i].pc = "fetch"
    /\ IF resolves
       THEN /\ sends' = [sends EXCEPT ![i].pc = "json"]
            /\ UNCHANGED <<messages, status, sendButton, timers, health, windowBackendUrl>>
       ELSE /\ sends' = Settle(i, Rejected)
            /\ sendMessage_catch(i, FetchErrorMessage)
    /\ UNCHANGED <<pagePort, inputValue, loads, filesList, validated, latest>>

\* await response.json() of the query settles
QueryJsonSettles(i, reply) ==
    /\ i \in DOMAIN sends
    /\ sends[i].pc = "json"
    /\ sends' = Settle(i, reply)
    /\ IF reply.kind = "parsed"
       THEN sendMessage_result(i, reply.body)
       ELSE sendMessage_catch(i, JsonErrorMessage)
    /\ UNCHANGED <<pagePort, inputValue, loads, filesList, validated, latest>>

----------------------------------------------------------------------------
\* loadFiles

\* #filesList as the page has it before the first rendering
FilesInitial == [kind |-> "initial", rows |-> <<>>, from |-> <<>>]

\* <p class="no-files">No files generated yet</p>
FilesEmpty == [kind |-> "no-files", rows |-> <<>>, from |-> <<>>]

\* faulty variant: the test of files.length is missing
displayFiles_no_empty(files) ==
    LET backendUrl == AgentChat_getBackendUrl IN
    [kind |-> "file-items",
     rows |-> [k \in 1..Len(files) |->
                  [name |-> files[k],
                   href |-> <<backendUrl, "/files/", files[k]>>]],
     from |-> <<>>]

\* AgentChat.displayFiles(files), files a list
displayFiles(files) ==
    IF Len(files) = 0
    THEN FilesEmpty
    ELSE LET backendUrl == AgentChat_getBackendUrl IN
         [kind |-> "file-items",
          rows |-> [k \in 1..Len(files) |->
                       [name |-> files[k],
                        href |-> <<backendUrl, "/files/", files[k]>>]],
          from |-> <<>>]

\* history: the most recently issued call has not rendered yet / a call of the
\* overlapping calls has failed / the most recently issued call has rendered files
LatestPending == [kind |-> "pending", files |-> <<>>]
LatestVoid == [kind |-> "void", files |-> <<>>]
LatestShown(files) == [kind |-> "shown", files |-> files]

\* loadFiles up to its first await
loadFiles ==
    /\ loads' = Append(loads, [pc |-> "fetch",
                               url |-> AgentChat_getBackendUrl])
    /\ latest' = IF loads # <<>> /\ latest.kind = "void" THEN LatestVoid ELSE LatestPending

Without(s, i) == SubSeq(s, 1, i - 1) \o SubSeq(s, i + 1, Len(s))

\* the catch block of loadFiles: console.error, and nothing else
loadFiles_catch(i) ==
    /\ loads' = Without(loads, i)
    /\ latest' = LatestVoid
    /\ UNCHANGED filesList

\* this.displayFiles(result.files || []) of the call number i in flight
loadFiles_display(i, files) ==
    /\ loads' = Without(loads, i)
    /\ filesList' = [displayFiles(files) EXCEPT !.from = <<loads[i].url>>]
    /\ latest' = IF latest.kind = "pending" /\ i = Len(loads)
                 THEN LatestShown(files) ELSE latest

\* the refresh button: the global function loadFiles()
RefreshButton ==
    /\ Len(loads) < MaxLoads
    /\ loadFiles
    /\ UNCHANGED <<pagePort, windowBackendUrl, status, messages, inputValue, sendButton,
                   sends, health, timers, filesList, validated>>

\* the oldest timer of sendMessage fires: () => this.loadFiles()
TimerFires ==
    /\ timers # <<>>
    /\ timers' = Tail(timers)
    /\ loadFiles
    /\ UNCHANGED <<pagePort, windowBackendUrl, status, messages, inputValue, sendButton,
                   sends, health, filesList, validated>>

\* await fetch(`${backendUrl}/files`) settles
FilesFetchSettles(i, resolves) ==
    /\ i \in DOMAIN loads
    /\ loads[i].pc = "fetch"
    /\ IF resolves
       THEN /\ loads' = [loads EXCEPT ![i].pc = "json"]
            /\ UNCHANGED <<filesList, latest>>
       ELSE loadFiles_catch(i)
    /\ UNCHANGED <<pagePort, windowBackendUrl, status, messages, inputValue, sendButton,
                   sends, health, timers, validated>>

\* await response.json() of the file list settles: parsed is <<>> when the body
\* is no JSON, <<body>> otherwise.  A files value that is no list and is truthy
\* has no map method: displayFiles throws before it writes.
FilesJsonSettles(i, parsed) ==
    /\ i \in DOMAIN loads
    /\ loads[i].pc = "json"
    /\ IF parsed = <<>>
       THEN loadFiles_catch(i)
       ELSE LET result == parsed[1] IN
            CASE result.kind = "list" -> loadFiles_display(i, result.files)
              [] result.kind \in {"nofield", "falsy"} -> loadFiles_display(i, <<>>)
              [] result.kind = "notlist" -> loadFiles_catch(i)
    /\ UNCHANGED <<pagePort, windowBackendUrl, status, messages, inputValue, sendButton,
                   sends, health, timers, validated>>

----------------------------------------------------------------------------
\* The page after new AgentChat(): loadFiles() and checkBackendStatus() have
\* each run up to their first await.

Init ==
    /\ pagePort \in PagePorts
    /\ windowBackendUrl = <<>>
    /\ status = StatusInitial
    /\ messages = <<>>
    /\ inputValue = <<>>
    /\ sendButton = setLoading(FALSE)
    /\ sends = <<>>
    /\ loads = << [pc |-> "fetch", url |-> BACKEND_URL] >>
    /\ health = [pc |-> "check_fetch", idx |-> 0, url |-> BACKEND_URL]
    /\ timers = <<>>
    /\ filesList = FilesInitial
    /\ validated = <<>>
    /\ latest = LatestPending

SendIds == 1..(MaxSends + 1)
LoadIds == 1..(MaxLoads + MaxSends)

Next ==
    \/ \E o \in HealthOutcomes : HealthFetchSettles(o)
    \/ \E b \in BOOLEAN : HealthJsonSettles(b)
    \/ \E o \in HealthOutcomes : ProbeSettles(o)
    \/ \E v \in Inputs : SubmitForm(v)
    \/ \E v \in Inputs : KeydownEnter(v)
    \/ \E i \in SendIds, b \in BOOLEAN : QueryFetchSettles(i, b)
    \/ \E i \in SendIds, r \in {Malformed} \cup {Parsed(b) : b \in QueryBodies} :
          QueryJsonSettles(i, r)
    \/ RefreshButton
    \/ TimerFires
    \/ \E i \in LoadIds, b \in BOOLEAN : FilesFetchSettles(i, b)
    \/ \E i \in LoadIds, p \in {<<>>} \cup {<<b>> : b \in FilesBodies} :
          FilesJsonSettles(i, p)

Spec == Init /\ [][Next]_vars

\* The event loop runs every callback that is ready: a request that was issued
\* settles (the transport answers or times out), and a timer that was set fires.
FairSpec ==
    /\ Spec
    /\ WF_vars(\E o \in HealthOutcomes : HealthFetchSettles(o))
    /\ WF_vars(\E b \in BOOLEAN : HealthJsonSettles(b))
    /\ WF_vars(\E o \in HealthOutcomes : ProbeSettles(o))
    /\ WF_vars(\E i \in SendIds, b \in BOOLEAN : QueryFetchSettles(i, b))
    /\ WF_vars(\E i \in SendIds, r \in {Malformed} \cup {Parsed(b) : b \in QueryBodies} :
                  QueryJsonSettles(i, r))
    /\ WF_vars(TimerFires)
    /\ WF_vars(\E i \in LoadIds, b \in BOOLEAN : FilesFetchSettles(i, b))
    /\ WF_vars(\E i \in LoadIds, p \in {<<>>} \cup {<<b>> : b \in FilesBodies} :
                  FilesJsonSettles(i, p))

\* a request to /query that was issued settles, and so does the reading of its body
QuerySettles ==
    \/ \E i \in SendIds, b \in BOOLEAN : QueryFetchSettles(i, b)
    \/ \E i \in SendIds, r \in {Malformed} \cup {Parsed(b) : b \in QueryBodies} :
          QueryJsonSettles(i, r)

\* The least the event loop is asked for: every /query request completes.
SendFairSpec == Spec /\ WF_vars(QuerySettles)

\* A timer that was set fires.
TimerFairSpec == Spec /\ WF_vars(TimerFires)

----------------------------------------------------------------------------
\* Notions the properties use

InFlight(i) == i \in DOMAIN sends /\ sends[i].pc \in {"fetch", "json"}

Finished(i) == i \in DOMAIN sends /\ sends[i].pc = "done"

\* the send got no parsed result: its fetch or its response.json() rejected
Threw(i) == Finished(i) /\ sends[i].reply.kind \in {"rejected", "malformed"}

Succeeded(i) ==
    Finished(i) /\ sends[i].reply.kind = "parsed" /\ sends[i].reply.body.status = "success"

\* the messages the sendMessage call number i has appended, in their order
MessagesOf(i) == SelectSeq(messages, LAMBDA m : m.send = i)

Checking == health.pc \in {"check_fetch", "check_json"}

----------------------------------------------------------------------------
\* C1 (as stated): whenever a /query call made after the endpoint was validated
\* fails, the fallback candidates are probed afterwards.
C1_RediscoveryAfterFailure ==
    \A i \in 1..MaxSends :
        (Threw(i) /\ sends[i].afterValidation) ~> (health.pc = "probe")

\* C1 (amended): a failed /query or /files call never starts a discovery: no step
\* of a send or of a file list changes the discovery or the stored endpoint; no
\* probe is in flight once an endpoint is validated; and a finished health check
\* is never started again.
C1_NoRediscovery ==
    /\ [][(sends' # sends \/ loads' # loads)
            => (health' = health /\ windowBackendUrl' = windowBackendUrl)]_vars
    /\ [](validated # <<>> => health.pc = "done")
    /\ [][health.pc = "done" => health'.pc = "done"]_vars

\* a send made after the validation has failed and has shown its error; the
\* discovery is not running
C1_Witness ==
    /\ \E i \in DOMAIN sends : Threw(i) /\ sends[i].afterValidation
    /\ validated # <<>>
    /\ health.pc = "done"
    /\ status = StatusConnectionError

----------------------------------------------------------------------------
\* C2 (as stated): whenever the health check of the primary candidate fails, by
\* an exception or by a status that is not 200, the fallback candidates are
\* probed next.
C2_EveryFailureEscalates ==
    [][(Checking /\ health' # health /\ health'.pc # "check_json"
        /\ status' # StatusConnected)
       => health'.pc = "probe"]_vars

\* C2 (amended): the health check escalates exactly when it throws (the request
\* rejects, or the body of a 200 answer does not parse): the status becomes
\* Disconnected and the first fallback candidate is probed.  An answer that is
\* not 200 ends the health check with the status Backend Error and nothing is
\* probed.  In neither case is the health check itself issued again.
C2_EscalatesOnlyOnThrow ==
    /\ [][/\ HealthFetchSettles("throw") \/ HealthJsonSettles(FALSE)
             => /\ status' = StatusDisconnected
                /\ health'.pc = "probe" /\ health'.idx = 1
          /\ HealthFetchSettles("notok")
             => /\ status' = StatusBackendError
                /\ health'.pc = "done"
                /\ UNCHANGED <<windowBackendUrl, validated>>]_vars
    /\ [][~Checking => ~Checking']_vars
    /\ [][health.pc = "check_json" => health'.pc # "check_fetch"]_vars

\* the backend has answered the health check with a status that is not 200: the
\* status says so, and no candidate is or was probed
C2_Witness ==
    /\ status = StatusBackendError
    /\ health.pc = "done"
    /\ validated = <<>>
    /\ windowBackendUrl = <<>>

----------------------------------------------------------------------------
\* the derived port: the port of the primary candidate
DerivedPort == BACKEND_URL[2]

\* C3 (as stated): the first two candidates are the derived port minus 1 and
\* plus 1.
C3_DocumentedOrder ==
    /\ (health.pc = "probe" /\ health.idx = 1)
          => health.url = LocalhostUrl(Minus(DerivedPort, 1))
    /\ (health.pc = "probe" /\ health.idx = 2)
          => health.url = LocalhostUrl(Plus(DerivedPort, 1))

\* the candidates in the order of the code, as a function of the page's port
C3_Candidates ==
    LET p == IF pagePort = <<>> THEN NaN ELSE Num(DigitsValue(pagePort)) IN
    << LocalhostUrl(IF p.nan THEN NaN ELSE Num(p.val - 1)),
       LocalhostUrl(IF p.nan THEN NaN ELSE Num(p.val + 1)),
       LocalhostUrl(Num(8002)), LocalhostUrl(Num(8002)), LocalhostUrl(Num(8003)),
       LocalhostUrl(Num(8004)), LocalhostUrl(Num(8005)), LocalhostUrl(Num(8006)),
       LocalhostUrl(Num(8007)), LocalhostUrl(Num(8008)) >>

\* C3 (amended): the candidates are the page's port minus 1 (the primary
\* candidate again) and plus 1, then 8002, 8002, 8003, ..., 8008.  They are
\* probed one at a time in that order, the next one only after the previous one
\* has failed; the first success stores exactly that candidate as the endpoint,
\* shows the connected status, and ends the probing for good.
C3_SequentialFirstSuccess ==
    /\ [](health.pc = "probe"
            => /\ health.idx \in 1..Len(C3_Candidates)
               /\ health.url = C3_Candidates[health.idx]
               /\ windowBackendUrl = <<>> /\ validated = <<>>)
    /\ [][(health'.pc = "probe" /\ health' # health)
            => \/ Checking /\ health'.idx = 1
               \/ health.pc = "probe" /\ health'.idx = health.idx + 1]_vars
    /\ [][ProbeSettles("ok")
            => /\ windowBackendUrl' = <<health.url>>
               /\ status' = StatusConnected
               /\ health'.pc = "done"]_vars
    /\ [][health.pc = "done" => health'.pc = "done"]_vars

\* the second candidate answered after the first one had failed: it is the
\* endpoint, the status is connected, the probing is over
C3_Witness ==
    /\ pagePort # <<>>
    /\ windowBackendUrl = <<C3_Candidates[2]>>
    /\ status = StatusConnected
    /\ health.pc = "done"

----------------------------------------------------------------------------
\* C4: when every candidate fails, the discovery ends after the probe of the
\* last of its ten candidates, with the status No Backend Found, and the stored
\* endpoint is unset, as it was during the whole discovery.
C4_NoBackendFound ==
    /\ [][(health.pc = "probe" /\ health'.pc = "done" /\ validated' = <<>>)
            => /\ health.idx = 10
               /\ status' = StatusNoBackendFound
               /\ windowBackendUrl = <<>> /\ windowBackendUrl' = <<>>]_vars
    /\ [](health.pc = "probe" => (health.idx <= 10 /\ windowBackendUrl = <<>>))
    /\ [][(health.pc = "probe" /\ health'.pc = "probe") => health'.idx >= health.idx]_vars

\* all ten probes have failed
C4_Witness ==
    /\ status = StatusNoBackendFound
    /\ health.pc = "done"
    /\ windowBackendUrl = <<>>
    /\ validated = <<>>

----------------------------------------------------------------------------
\* C5: once an endpoint is validated, every POST /query and every GET /files
\* issued from then on is addressed to it, and so is every download link
\* rendered from then on (whether or not a call has failed in between).
C5_ValidatedEndpointReused ==
    [][validated # <<>>
        => /\ Len(sends') > Len(sends) => sends'[Len(sends')].url = validated[1]
           /\ Len(loads') > Len(loads) => loads'[Len(loads')].url = validated[1]
           /\ filesList' # filesList
                 => \A k \in DOMAIN filesList'.rows :
                        filesList'.rows[k].href[1] = validated[1]]_vars

\* a fallback candidate that is not the primary one was validated; a query made
\* since is in flight to it, and the links of the rendered list point to it
C5_Witness ==
    /\ validated # <<>> /\ validated[1] # BACKEND_URL
    /\ \E i \in DOMAIN sends : InFlight(i) /\ sends[i].afterValidation
                                /\ sends[i].url = validated[1]
    /\ filesList.kind = "file-items"
    /\ filesList.rows[1].href[1] = validated[1]

----------------------------------------------------------------------------
\* the user message a send appends first
UserMessage(i) ==
    [content |-> sends[i].request.prompt, className |-> <<"message ", "user">>, send |-> i]

\* the text of the error message of a send that did not succeed
C6_Detail(i) ==
    LET r == sends[i].reply IN
    CASE r.kind = "rejected" -> <<"Connection error: ", "Failed to fetch">>
      [] r.kind = "malformed" -> <<"Connection error: ", "Unexpected token">>
      [] r.kind = "parsed" -> IF r.body.error # <<>>
                              THEN <<"Error: ">> \o r.body.error
                              ELSE <<"Error: ", "Unknown error">>

\* C6: a send that ends without the status "success" (another status, a rejected
\* request, a body that does not parse) has appended its user message and then
\* exactly one message tagged as an error, which carries the backend's error
\* field ("Unknown error" when there is none) or the exception's message, and no
\* assistant message; its POST is issued once and never again.
C6_ErrorMessageOnce ==
    /\ [](\A i \in DOMAIN sends :
            (Finished(i) /\ ~Succeeded(i))
               => MessagesOf(i) =
                     << UserMessage(i),
                        [content |-> C6_Detail(i),
                         className |-> <<"message ", "assistant error">>,
                         send |-> i] >>)
    /\ [][\A i \in DOMAIN sends :
            /\ i \in DOMAIN sends'
            /\ sends[i].pc # "fetch" => sends'[i].pc # "fetch"
            /\ sends'[i].request = sends[i].request
            /\ sends'[i].url = sends[i].url]_vars

\* the backend has answered {status: "error", error: "boom"}: the error message
\* with "boom" follows the user message
C6_Witness ==
    /\ Finished(1)
    /\ sends[1].reply = Parsed(QueryBody("error", <<>>, <<"boom">>))
    /\ Len(messages) = 2
    /\ messages[2].content = <<"Error: ", "boom">>

----------------------------------------------------------------------------
\* C7: a send of the non-empty trimmed text t that the backend answers with
\* {status: "success", response: r} has appended exactly two messages: the user
\* message t, then the assistant message r.
C7_SuccessAppendsTwo ==
    \A i \in DOMAIN sends :
        Succeeded(i)
           => /\ MessagesOf(i) =
                    << UserMessage(i),
                       [content |-> sends[i].reply.body.response,
                        className |-> <<"message ", "assistant">>,
                        send |-> i] >>
              /\ sends[i].request.prompt \in {Trim(v) : v \in Inputs} \ {<<>>}

\* " a b " was sent and answered with "hi"
C7_Witness ==
    /\ Succeeded(1)
    /\ Len(messages) = 2
    /\ messages[1].content = <<"a", " ", "b">>
    /\ messages[2].content = <<"hi">>

----------------------------------------------------------------------------
\* C8: a send of an input that is empty or only white space issues no request,
\* appends no message, and leaves the button, the status and the endpoint as
\* they are.
C8_EmptySendIsNoOp ==
    [][\A v \in Inputs :
          (Trim(v) = <<>> /\ (SubmitForm(v) \/ KeydownEnter(v)))
             => UNCHANGED <<messages, sends, loads, timers, sendButton, status,
                            windowBackendUrl, health, filesList>>]_vars

\* a blank was sent: it is still in the input, and nothing else has happened
C8_Witness ==
    /\ inputValue = <<" ">>
    /\ messages = <<>>
    /\ sends = <<>>
    /\ ~sendButton.disabled

----------------------------------------------------------------------------
\* C9: provided its request completes, every send in flight finishes, whatever
\* the answer, and the button is enabled when it does; no step of the health
\* check, of the discovery or of a file list touches the button.
C9_SendReturnsToIdle ==
    /\ \A i \in 1..MaxSends : InFlight(i) ~> (Finished(i) /\ ~sendButton.disabled)
    /\ [][\A i \in DOMAIN sends :
            (InFlight(i) /\ sends'[i].pc = "done") => ~sendButton'.disabled]_vars
    /\ [][(health' # health \/ loads' # loads) => sendButton' = sendButton]_vars

\* a send has failed and the button is enabled again
C9_Witness ==
    /\ \E i \in DOMAIN sends : Threw(i)
    /\ ~sendButton.disabled
    /\ sendButton.sendText = "inline"

----------------------------------------------------------------------------
\* C10: whenever the button is disabled, some send has issued its request and
\* has not finished handling the answer.
C10_DisabledOnlyWhileSending ==
    sendButton.disabled => \E i \in DOMAIN sends : InFlight(i)

\* the button is disabled while the body of the answer is awaited
C10_Witness ==
    /\ sendButton.disabled
    /\ \E i \in DOMAIN sends : sends[i].pc = "json"

----------------------------------------------------------------------------
\* the ways a call fails: the request rejects, the body does not parse, the
\* answer says so (a status that is not ok, a status field that is not
\* "success"), the files value cannot be rendered
HealthFails ==
    HealthFetchSettles("notok") \/ HealthFetchSettles("throw") \/ HealthJsonSettles(FALSE)

QueryFails(i) ==
    \/ QueryFetchSettles(i, FALSE)
    \/ QueryJsonSettles(i, Malformed)
    \/ \E b \in QueryBodies : b.status # "success" /\ QueryJsonSettles(i, Parsed(b))

FilesFails(i) ==
    \/ FilesFetchSettles(i, FALSE)
    \/ FilesJsonSettles(i, <<>>)
    \/ FilesJsonSettles(i, << [kind |-> "notlist", files |-> <<>>] >>)

ErrorTagged(m) == m.className = <<"message ", "assistant error">>

ErrorMessageAppended ==
    /\ Len(messages') = Len(messages) + 1
    /\ SubSeq(messages', 1, Len(messages)) = messages
    /\ ErrorTagged(messages'[Len(messages')])

----------------------------------------------------------------------------
\* the bodies of GET /files that hold no file: no files field, a falsy files
\* value, an empty list; and the bodies that cannot be rendered
EmptyBodies == {b \in FilesBodies : b.kind \in {"nofield", "falsy"} \/ (b.kind = "list" /\ b.files = <<>>)}
UnusableBodies == {b \in FilesBodies : b.kind = "notlist"}

\* C12 (as stated): after a response to GET /files that is empty or malformed,
\* the displayed list is the empty-state indicator.
C12_DegradesToEmptyList ==
    [][\A i \in LoadIds :
          (\/ FilesJsonSettles(i, <<>>)
           \/ \E b \in EmptyBodies \cup UnusableBodies : FilesJsonSettles(i, <<b>>))
             => filesList'.kind = "no-files"]_vars

\* C12 (amended): a response without a files field, with a falsy files value or
\* with an empty list shows the empty-state indicator, whatever was displayed
\* before.  A body that is not JSON, or a files value that is no list, leaves
\* the displayed list as it was.  Either way the call ends and nothing else on
\* the page changes.
C12_EmptyShownMalformedIgnored ==
    /\ [][\A i \in LoadIds : \A b \in EmptyBodies :
            FilesJsonSettles(i, <<b>>)
               => /\ filesList'.kind = "no-files" /\ filesList'.rows = <<>>
                  /\ loads' = Without(loads, i)]_vars
    /\ [][\A i \in LoadIds :
            (FilesJsonSettles(i, <<>>) \/ \E b \in UnusableBodies : FilesJsonSettles(i, <<b>>))
               => /\ filesList' = filesList
                  /\ loads' = Without(loads, i)]_vars
    /\ [][loads' # loads => UNCHANGED <<status, messages, sendButton, sends, health>>]_vars

\* every call has returned, one of the last overlapping calls has failed, and
\* the page shows a list of files, not the empty-state indicator
C12_Witness ==
    /\ filesList.kind = "file-items"
    /\ latest.kind = "void"
    /\ loads = <<>>

----------------------------------------------------------------------------
\* the sends whose delayed refresh is set and has not fired
Scheduled == {timers[k] : k \in DOMAIN timers}

\* the assistant message of a send that succeeded
AssistantMessage(i) ==
    [content |-> sends[i].reply.body.response, className |-> <<"message ", "assistant">>,
     send |-> i]

\* C13: the step in which a send ends with the status "success" appends its
\* assistant message and sets its timer; the timer eventually fires, and the
\* step in which it fires issues a GET /files to the current endpoint, the
\* assistant message being in the sequence since the timer was set.  A send
\* that ends otherwise sets no timer.
C13_RefreshAfterSuccess ==
    /\ \A i \in 1..MaxSends : Succeeded(i) ~> (Succeeded(i) /\ i \notin Scheduled)
    /\ [][\A i \in DOMAIN sends :
            (InFlight(i) /\ sends'[i].pc = "done")
               => IF sends'[i].reply.kind = "parsed" /\ sends'[i].reply.body.status = "success"
                  THEN /\ timers' = Append(timers, i)
                       /\ loads' = loads
                       /\ messages'[Len(messages')].send = i
                       /\ messages'[Len(messages')].className = <<"message ", "assistant">>
                  ELSE timers' = timers /\ loads' = loads]_vars
    /\ [](\A i \in Scheduled :
            /\ Succeeded(i)
            /\ MessagesOf(i) = <<UserMessage(i), AssistantMessage(i)>>)
    /\ [][\A i \in Scheduled :
            i \notin {timers'[k] : k \in DOMAIN timers'}
               => /\ loads' = Append(loads, [pc |-> "fetch", url |-> AgentChat_getBackendUrl])
                  /\ messages' = messages]_vars
    /\ [][timers' # timers
            => \/ \E i \in DOMAIN sends : InFlight(i) /\ timers' = Append(timers, i)
               \/ timers # <<>> /\ timers' = Tail(timers)]_vars

\* the send has succeeded, its timer has fired, and the refresh it issued is in
\* flight next to the file list of the constructor
C13_Witness ==
    /\ Succeeded(1)
    /\ timers = <<>>
    /\ Len(messages) = 2
    /\ Len(loads) = 2
    /\ loads[2].pc = "fetch"

----------------------------------------------------------------------------
\* C14: every send whose POST /query is issued has appended its user message
\* before; while the request is pending that is its only message; when the send
\* has finished, its one response message (assistant or error) follows.  So in
\* the sequence every response message comes after the user message of the same
\* send, also when sends overlap; and every message belongs to a send.
C14_EchoRequestResponse ==
    /\ \A i \in DOMAIN sends :
          /\ InFlight(i) => MessagesOf(i) = <<UserMessage(i)>>
          /\ Finished(i) => /\ Len(MessagesOf(i)) = 2
                             /\ MessagesOf(i)[1] = UserMessage(i)
                             /\ MessagesOf(i)[2].className
                                   \in { <<"message ", "assistant">>,
                                         <<"message ", "assistant error">> }
    /\ \A k \in DOMAIN messages :
          /\ messages[k].send \in DOMAIN sends
          /\ messages[k].className # <<"message ", "user">>
                => \E j \in 1..(k - 1) : messages[j] = UserMessage(messages[k].send)

\* two sends overlap and the second one is answered first: its answer follows
\* both user messages
C14_Witness ==
    /\ Len(sends) = 2
    /\ InFlight(1) /\ Finished(2)
    /\ Len(messages) = 3
    /\ messages[1] = UserMessage(1)
    /\ messages[2] = UserMessage(2)
    /\ messages[3].send = 2

----------------------------------------------------------------------------
IsPrefix(s, t) == Len(s) <= Len(t) /\ SubSeq(t, 1, Len(s)) = s

\* C15: in every step the message sequence before the step is a prefix of the
\* sequence after it, and a step adds at most one message; the steps of the
\* health check, of the discovery and of the file lists leave it as it is.
C15_AppendOnly ==
    /\ [][IsPrefix(messages, messages') /\ Len(messages') <= Len(messages) + 1]_vars
    /\ [][(health' # health \/ loads' # loads) => messages' = messages]_vars

\* two sends have run to their end: four messages, in the order of their appends
C15_Witness ==
    /\ Len(messages) = 4
    /\ Finished(1) /\ Finished(2)
    /\ messages[1] = UserMessage(1)
    /\ messages[4].className = <<"message ", "assistant error">>

----------------------------------------------------------------------------
\* C16: every displayed download link is {endpoint}/files/{filename} for the
\* endpoint that getBackendUrl returns now, and the displayed list was fetched
\* from that endpoint.
C16_LinksOnCurrentEndpoint ==
    filesList.kind = "file-items"
       => /\ \A k \in DOMAIN filesList.rows :
                filesList.rows[k].href
                   = <<AgentChat_getBackendUrl, "/files/", filesList.rows[k].name>>
          /\ filesList.from = <<AgentChat_getBackendUrl>>

----------------------------------------------------------------------------
\* page ports P > 0 as the browser writes them, with the number each one
\* denotes, and the fixed fallback port
C17_Ports ==
    { [port |-> <<1>>, number |-> 1],
      [port |-> <<8, 0>>, number |-> 80],
      [port |-> <<3, 0, 0, 1>>, number |-> 3001],
      [port |-> <<8, 0, 0, 3>>, number |-> 8003],
      [port |-> <<6, 5, 5, 3, 5>>, number |-> 65535] }

C17_Fallback == [nan |-> FALSE, val |-> 8002]

\* what the claim says the endpoint of a page is
C17_Endpoint(port) ==
    IF port = <<>>
    THEN <<"http://localhost:", C17_Fallback>>
    ELSE LET c == CHOOSE c \in C17_Ports : c.port = port IN
         <<"http://localhost:", [nan |-> FALSE, val |-> c.number - 1]>>

\* C17: for a page on port P > 0 getBackendUrl yields the base URL with port
\* P - 1, and for a page without a port the one with port 8002; the page's port,
\* its only input, never changes, so the primary endpoint is the same in
\* every state, and it is where the health check of the constructor goes.
C17_ResolveEndpoint ==
    /\ [](\A c \in C17_Ports : getBackendUrl(c.port) = C17_Endpoint(c.port))
    /\ [](getBackendUrl(<<>>) = C17_Endpoint(<<>>))
    /\ [](BACKEND_URL = C17_Endpoint(pagePort))
    /\ [](Checking => health.url = C17_Endpoint(pagePort))
    /\ [][pagePort' = pagePort]_vars

\* the page is on port 3001: the health check went to port 3000 and was answered
C17_Witness ==
    /\ pagePort = <<3, 0, 0, 1>>
    /\ health.pc = "check_json"
    /\ health.url = <<"http://localhost:", [nan |-> FALSE, val |-> 3000]>>

----------------------------------------------------------------------------
\* C18: whenever a send is in flight, the button is disabled.
C18_DisabledWhileAnyInFlight ==
    (\E i \in DOMAIN sends : InFlight(i)) => sendButton.disabled

----------------------------------------------------------------------------
\* the file names on display
DisplayedNames == [k \in DOMAIN filesList.rows |-> filesList.rows[k].name]

\* C19: once all the overlapping file lists have completed successfully, the
\* list on display is the one returned for the most recently issued of them.
C19_LatestFetchWins ==
    (loads = <<>> /\ latest.kind = "shown") => DisplayedNames = latest.files

====
